---- MODULE Spec2Model ----
(***************************************************************************)
(* PyOptik/material/base_class.py: BaseMaterial.                           *)
(*                                                                         *)
(* The material is the pair (filename, wavelength_bound).  The operations  *)
(* are __str__, __repr__, _check_wavelength and the wrapper produced by    *)
(* ensure_units.  warnings.warn is modelled with the disposition the       *)
(* Python warnings machinery gives a UserWarning: the active filter action *)
(* and the __warningregistry__ of the module that issues the warning.      *)
(*                                                                         *)
(* Values.  A wavelength argument is a record                              *)
(*     [kind, shape, mags, units]                                          *)
(* kind  : "None" (argument omitted), "number" (bare number or bare numpy  *)
(*         array), "Quantity" (unit-bearing)                               *)
(* shape : "scalar" or "array" ("none" for None)                           *)
(* mags  : the magnitudes, a sequence (of length 1 for a scalar)           *)
(* units : "meter", "millimeter" ("none" when there is no unit)            *)
(* Magnitudes are integers.                                                *)
(***************************************************************************)
EXTENDS Integers, Sequences, FiniteSets, TLC

VARIABLES
    filename,          \* self.filename
    wavelength_bound,  \* self.wavelength_bound: None or a 2-element Quantity array
    filter_action,     \* the warnings filter action that applies to a UserWarning
    registry,          \* __warningregistry__ of base_class.py: texts already shown
    last,              \* the record of the last call made on the material
    ncalls             \* number of calls made so far

vars == <<filename, wavelength_bound, filter_action, registry, last, ncalls>>

\* ---------------------------------------------------------------- bounds
MaxCalls == 2
MaxLen == 2

\* numpy.linspace(..., 100)
NumSamples == 100

\* ---------------------------------------------------------------- values
None_ == [kind |-> "None", shape |-> "none", mags |-> <<>>, units |-> "none"]

Number(shape, mags) == [kind |-> "number", shape |-> shape, mags |-> mags, units |-> "none"]

Quantity(shape, mags, units) == [kind |-> "Quantity", shape |-> shape, mags |-> mags, units |-> units]

meter == "meter"

millimeter == "millimeter"

Units == {meter, millimeter}

\* the length of a unit, in millimeters
Scale(u) == IF u = meter THEN 1000 ELSE 1

\* isinstance(wavelength, Quantity)
isinstance_Quantity(w) == w.kind = "Quantity"

\* q[i] of an array Quantity (0-based, as in the source): a scalar Quantity
getitem(q, i) == Quantity("scalar", <<q.mags[i + 1]>>, q.units)

\* q.magnitude of a scalar Quantity
magnitude(q) == q.mags[1]

\* value * unit: the magnitudes are kept, the unit is attached
mul_unit(w, u) == Quantity(w.shape, w.mags, u)

\* the magnitudes of q expressed in millimeters
ToBase(q) == [i \in 1..Len(q.mags) |-> q.mags[i] * Scale(q.units)]

\* q < s and q > s, elementwise, s a scalar Quantity; units are converted
less(q, s) == [i \in 1..Len(q.mags) |-> q.mags[i] * Scale(q.units) < ToBase(s)[1]]

greater(q, s) == [i \in 1..Len(q.mags) |-> q.mags[i] * Scale(q.units) > ToBase(s)[1]]

\* a | b, elementwise
logical_or(a, b) == [i \in 1..Len(a) |-> a[i] \/ b[i]]

\* numpy.any: false over an empty array
numpy_any(a) == \E i \in 1..Len(a) : a[i]

\* q.min() and q.max(): a scalar Quantity in the unit of q
Quantity_min(q) ==
    Quantity("scalar", <<CHOOSE m \in {q.mags[i] : i \in 1..Len(q.mags)} :
                           \A j \in 1..Len(q.mags) : m <= q.mags[j]>>, q.units)

Quantity_max(q) ==
    Quantity("scalar", <<CHOOSE m \in {q.mags[i] : i \in 1..Len(q.mags)} :
                           \A j \in 1..Len(q.mags) : m >= q.mags[j]>>, q.units)

\* q.to_compact() of a scalar Quantity, as it is rendered in a message: the
\* value in the largest unit that keeps it a whole number of at least 1
to_compact(q) ==
    LET v == ToBase(q)[1]
    IN  IF v >= Scale(meter) /\ v % Scale(meter) = 0
        THEN <<v \div Scale(meter), meter>>
        ELSE <<v, millimeter>>

\* numpy.linspace(start, stop, num): num evenly spaced samples, both ends included
numpy_linspace(start, stop, num) ==
    [i \in 1..num |-> start + ((i - 1) * (stop - start)) \div (num - 1)]

\* ---------------------------------------------------------------- warnings
FilterActions == {"default", "always", "module", "once", "ignore", "error"}

\* warnings.warn(text) issued from the one call site of base_class.py, under
\* filter action W.action and registry W.registry
warnings_warn(text, W) ==
    IF text \in W.registry
    THEN [shown |-> 0, raised |-> "none", registry |-> W.registry]
    ELSE CASE W.action = "ignore" ->
                [shown |-> 0, raised |-> "none", registry |-> W.registry]
           [] W.action = "error" ->
                [shown |-> 0, raised |-> "UserWarning", registry |-> W.registry]
           [] W.action = "always" ->
                [shown |-> 1, raised |-> "none", registry |-> W.registry]
           [] OTHER ->
                [shown |-> 1, raised |-> "none", registry |-> W.registry \cup {text}]

\* ---------------------------------------------------------------- BaseMaterial
\* f"Material: {self.filename}"
__str__(self) == "Material: " \o self.filename

\* mutant: __repr__ gives a formal form of its own
repr_formal(self) == "BaseMaterial(" \o self.filename \o ")"

__repr__(self) == __str__(self)

\* the f-string of the advisory: its interpolated fields, in order
message(self, wavelength_range, min_value, max_value) ==
    << to_compact(Quantity_min(wavelength_range)),
       to_compact(Quantity_max(wavelength_range)),
       to_compact(min_value),
       to_compact(max_value),
       self.filename >>

NoAdvisory(self, wavelength_range, W) ==
    [warned |-> 0, shown |-> 0, raised |-> "none", ret |-> "None",
     registry |-> W.registry, self |-> self, wavelength_range |-> wavelength_range]

\* the outcome of the one warnings.warn call of _check_wavelength
Advisory(self, wavelength_range, W, w) ==
    [warned |-> 1, shown |-> w.shown, raised |-> w.raised,
     ret |-> IF w.raised = "none" THEN "None" ELSE "no return",
     registry |-> w.registry, self |-> self, wavelength_range |-> wavelength_range]

\* mutant: one advisory per offending element
check_wavelength_per_element(self, wavelength_range, W) ==
    IF self.wavelength_bound # None_
    THEN LET min_value == getitem(self.wavelength_bound, 0)
             max_value == getitem(self.wavelength_bound, 1)
             bad == logical_or(less(wavelength_range, min_value),
                               greater(wavelength_range, max_value))
         IN  IF numpy_any(bad)
             THEN [Advisory(self, wavelength_range, W,
                            warnings_warn(message(self, wavelength_range, min_value, max_value), W))
                   EXCEPT !.warned = Cardinality({i \in 1..Len(bad) : bad[i]})]
             ELSE NoAdvisory(self, wavelength_range, W)
    ELSE NoAdvisory(self, wavelength_range, W)

\* mutant: the guard on wavelength_bound is inverted
check_wavelength_inverted_guard(self, wavelength_range, W) ==
    IF self.wavelength_bound = None_
    THEN [NoAdvisory(self, wavelength_range, W)
          EXCEPT !.raised = "TypeError", !.ret = "no return"]
    ELSE NoAdvisory(self, wavelength_range, W)

\* mutant: the bounds are exclusive (<= and >= in place of < and >)
check_wavelength_exclusive(self, wavelength_range, W) ==
    IF self.wavelength_bound # None_
    THEN LET min_value == getitem(self.wavelength_bound, 0)
             max_value == getitem(self.wavelength_bound, 1)
         IN  IF numpy_any([i \in 1..Len(wavelength_range.mags) |->
                              \/ ~greater(wavelength_range, min_value)[i]
                              \/ ~less(wavelength_range, max_value)[i]])
             THEN Advisory(self, wavelength_range, W,
                           warnings_warn(message(self, wavelength_range, min_value, max_value), W))
             ELSE NoAdvisory(self, wavelength_range, W)
    ELSE NoAdvisory(self, wavelength_range, W)

\* mutant: an out-of-range wavelength is rejected with an exception
check_wavelength_strict(self, wavelength_range, W) ==
    IF self.wavelength_bound # None_
    THEN LET min_value == getitem(self.wavelength_bound, 0)
             max_value == getitem(self.wavelength_bound, 1)
         IN  IF numpy_any(logical_or(less(wavelength_range, min_value),
                                     greater(wavelength_range, max_value)))
             THEN [NoAdvisory(self, wavelength_range, W)
                   EXCEPT !.raised = "ValueError", !.ret = "no return"]
             ELSE NoAdvisory(self, wavelength_range, W)
    ELSE NoAdvisory(self, wavelength_range, W)

\* mutant: the method remembers the messages it has issued and skips a repeat
check_wavelength_memo(self, wavelength_range, W) ==
    IF self.wavelength_bound # None_
    THEN LET min_value == getitem(self.wavelength_bound, 0)
             max_value == getitem(self.wavelength_bound, 1)
             text == message(self, wavelength_range, min_value, max_value)
         IN  IF /\ numpy_any(logical_or(less(wavelength_range, min_value),
                                        greater(wavelength_range, max_value)))
                /\ text \notin W.registry
             THEN [Advisory(self, wavelength_range, W, warnings_warn(text, W))
                   EXCEPT !.registry = W.registry \cup {text}]
             ELSE NoAdvisory(self, wavelength_range, W)
    ELSE NoAdvisory(self, wavelength_range, W)

_check_wavelength(self, wavelength_range, W) ==
    IF self.wavelength_bound # None_
    THEN LET min_value == getitem(self.wavelength_bound, 0)
             max_value == getitem(self.wavelength_bound, 1)
         IN  IF numpy_any(logical_or(less(wavelength_range, min_value),
                                     greater(wavelength_range, max_value)))
             THEN Advisory(self, wavelength_range, W,
                           warnings_warn(message(self, wavelength_range, min_value, max_value), W))
             ELSE NoAdvisory(self, wavelength_range, W)
    ELSE NoAdvisory(self, wavelength_range, W)

\* func(self, wavelength, *args, **kwargs): the wrapped operation; result is
\* the value it returns
func(self, wavelength, args, kwargs, result) ==
    [ran |-> TRUE, raised |-> "none", received |-> wavelength,
     rargs |-> args, rkwargs |-> kwargs, result |-> result, ret |-> result]

\* wavelength_bound[0]: TypeError when wavelength_bound is None; func is not called
NotSubscriptable ==
    [ran |-> FALSE, raised |-> "TypeError", received |-> None_,
     rargs |-> <<>>, rkwargs |-> <<>>, result |-> "no result", ret |-> "no return"]

\* numpy.linspace(bound[0].magnitude, bound[1].magnitude, 100), a bare array
default_sweep(self) ==
    Number("array", numpy_linspace(magnitude(getitem(self.wavelength_bound, 0)),
                                   magnitude(getitem(self.wavelength_bound, 1)),
                                   NumSamples))

\* mutant: the isinstance test is dropped, a bare number goes through as it is
wrapper_no_coerce(self, wavelength, args, kwargs, result) ==
    IF wavelength = None_ /\ self.wavelength_bound = None_
    THEN NotSubscriptable
    ELSE func(self,
              IF wavelength = None_
              THEN mul_unit(default_sweep(self), self.wavelength_bound.units)
              ELSE wavelength,
              args, kwargs, result)

\* mutant: the default sweep is not multiplied by the unit of wavelength_bound
wrapper_sweep_unitless(self, wavelength, args, kwargs, result) ==
    IF wavelength = None_ /\ self.wavelength_bound = None_
    THEN NotSubscriptable
    ELSE LET w1 == IF wavelength = None_ THEN default_sweep(self) ELSE wavelength
             w2 == IF ~isinstance_Quantity(w1) THEN mul_unit(w1, meter) ELSE w1
         IN  func(self, w2, args, kwargs, result)

\* mutant: a bare number is given the unit of the data files instead of meter
wrapper_bare_millimeter(self, wavelength, args, kwargs, result) ==
    IF wavelength = None_ /\ self.wavelength_bound = None_
    THEN NotSubscriptable
    ELSE LET w1 == IF wavelength = None_
                   THEN mul_unit(default_sweep(self), self.wavelength_bound.units)
                   ELSE wavelength
             w2 == IF ~isinstance_Quantity(w1) THEN mul_unit(w1, millimeter) ELSE w1
         IN  func(self, w2, args, kwargs, result)

\* mutant: a Quantity is converted to one canonical unit before the call
wrapper_convert(self, wavelength, args, kwargs, result) ==
    IF wavelength = None_ /\ self.wavelength_bound = None_
    THEN NotSubscriptable
    ELSE LET w1 == IF wavelength = None_
                   THEN mul_unit(default_sweep(self), self.wavelength_bound.units)
                   ELSE wavelength
             w2 == IF ~isinstance_Quantity(w1) THEN mul_unit(w1, meter)
                   ELSE Quantity(w1.shape, ToBase(w1), millimeter)
         IN  func(self, w2, args, kwargs, result)

\* the wrapper that ensure_units returns
wrapper(self, wavelength, args, kwargs, result) ==
    IF wavelength = None_ /\ self.wavelength_bound = None_
    THEN NotSubscriptable
    ELSE LET w1 == IF wavelength = None_
                   THEN mul_unit(default_sweep(self), self.wavelength_bound.units)
                   ELSE wavelength
             w2 == IF ~isinstance_Quantity(w1) THEN mul_unit(w1, meter) ELSE w1
         IN  func(self, w2, args, kwargs, result)

\* ---------------------------------------------------------------- inputs
Filenames == {"BK7", "water"}

Bounds ==
    { None_,
      Quantity("array", <<990, 1980>>, millimeter),
      Quantity("array", <<1, 100>>, meter) }

SeqsBetween(S, lo, hi) == UNION {[1..k -> S] : k \in lo..hi}

Mags(u) == IF u = millimeter THEN {989, 990, 1980, 1981} ELSE {0, 1}

\* the Quantity values passed to _check_wavelength
CheckInputs ==
    UNION {   {Quantity("scalar", <<m>>, u) : m \in Mags(u)}
         \cup {Quantity("array", s, u) : s \in SeqsBetween(Mags(u), 0, MaxLen)}
         : u \in Units }

WrapMags == {1, 1550}

WrapArrays == {<<1, 1550>>}

\* the wavelength arguments passed to a wrapped operation
WrapperInputs ==
         {None_}
    \cup {Number("scalar", <<m>>) : m \in WrapMags}
    \cup {Number("array", s) : s \in WrapArrays}
    \cup {Quantity("scalar", <<m>>, u) : m \in WrapMags, u \in Units}
    \cup {Quantity("array", s, u) : s \in WrapArrays, u \in Units}

\* the remaining positional and keyword arguments
Extras == { [args |-> <<>>, kwargs |-> <<>>],
            [args |-> <<"extra">>, kwargs |-> << <<"key", "value">> >>] }

Results == {"r1", "r2"}

\* ---------------------------------------------------------------- state machine
Self == [filename |-> filename, wavelength_bound |-> wavelength_bound]

Warnings == [action |-> filter_action, registry |-> registry]

NoCall ==
    [op |-> "none", arg |-> None_, args |-> <<>>, kwargs |-> <<>>,
     warned |-> 0, shown |-> 0, raised |-> "none", ret |-> "no return",
     ran |-> FALSE, received |-> None_, rargs |-> <<>>, rkwargs |-> <<>>,
     result |-> "no result", argAfter |-> None_]

Init ==
    /\ filename \in Filenames
    /\ wavelength_bound \in Bounds
    /\ filter_action \in FilterActions
    /\ registry = {}
    /\ last = NoCall
    /\ ncalls = 0

Str ==
    /\ ncalls < MaxCalls
    /\ last' = [NoCall EXCEPT !.op = "str", !.ret = __str__(Self)]
    /\ ncalls' = ncalls + 1
    /\ UNCHANGED <<filename, wavelength_bound, filter_action, registry>>

Repr ==
    /\ ncalls < MaxCalls
    /\ last' = [NoCall EXCEPT !.op = "repr", !.ret = __repr__(Self)]
    /\ ncalls' = ncalls + 1
    /\ UNCHANGED <<filename, wavelength_bound, filter_action, registry>>

CheckWavelength ==
    /\ ncalls < MaxCalls
    /\ \E wavelength_range \in CheckInputs :
          \E o \in {_check_wavelength(Self, wavelength_range, Warnings)} :
              /\ last' = [NoCall EXCEPT !.op = "check", !.arg = wavelength_range,
                                        !.warned = o.warned, !.shown = o.shown,
                                        !.raised = o.raised, !.ret = o.ret,
                                        !.argAfter = o.wavelength_range]
              /\ registry' = o.registry
              /\ filename' = o.self.filename
              /\ wavelength_bound' = o.self.wavelength_bound
    /\ ncalls' = ncalls + 1
    /\ UNCHANGED filter_action

Wrapper ==
    /\ ncalls < MaxCalls
    /\ \E wavelength \in WrapperInputs, x \in Extras, result \in Results :
          \E o \in {wrapper(Self, wavelength, x.args, x.kwargs, result)} :
              last' = [NoCall EXCEPT !.op = "wrapper", !.arg = wavelength,
                                     !.args = x.args, !.kwargs = x.kwargs,
                                     !.raised = o.raised, !.ret = o.ret,
                                     !.ran = o.ran, !.received = o.received,
                                     !.rargs = o.rargs, !.rkwargs = o.rkwargs,
                                     !.result = o.result,
                                     !.argAfter = wavelength]
    /\ ncalls' = ncalls + 1
    /\ UNCHANGED <<filename, wavelength_bound, filter_action, registry>>

Next == Str \/ Repr \/ CheckWavelength \/ Wrapper

Spec == Init /\ [][Next]_vars

\* ---------------------------------------------------------------- properties
\* the value of element i of q, in millimeters
Value(q, i) == q.mags[i] * Scale(q.units)

\* the elements of q strictly below min or strictly above max of bound
Offending(q, bound) ==
    {i \in 1..Len(q.mags) : Value(q, i) < Value(bound, 1) \/ Value(q, i) > Value(bound, 2)}

\* a call of op has just been made
Called(op) == last.op = op /\ ncalls > 0

\* C1: with wavelength_bound set, a call of _check_wavelength whose range has
\* at least one element strictly below min or strictly above max issues
\* exactly one advisory, however many elements offend and whichever bound
\* is violated (and so never delivers more than one).
C1_OneAdvisoryPerCall ==
    (Called("check") /\ wavelength_bound # None_ /\ Offending(last.arg, wavelength_bound) # {})
        => (last.warned = 1 /\ last.shown <= 1)

\* a call with two offending elements, one below min and one above max
C1_Witness ==
    /\ Called("check")
    /\ wavelength_bound # None_
    /\ Cardinality(Offending(last.arg, wavelength_bound)) = 2
    /\ \E i, j \in 1..Len(last.arg.mags) :
          /\ Value(last.arg, i) < Value(wavelength_bound, 1)
          /\ Value(last.arg, j) > Value(wavelength_bound, 2)
    /\ last.warned = 1

\* C2: with wavelength_bound None, _check_wavelength issues no advisory for
\* any range, scalar or array: the call does nothing and returns None.
C2_NoBoundNoAdvisory ==
    (Called("check") /\ wavelength_bound = None_)
        => (last.warned = 0 /\ last.shown = 0 /\ last.raised = "none" /\ last.ret = "None")

\* a call on a material without bound, with a two-element range
C2_Witness ==
    /\ Called("check")
    /\ wavelength_bound = None_
    /\ last.arg.shape = "array"
    /\ Len(last.arg.mags) = 2
    /\ last.warned = 0

\* C3: with wavelength_bound set, no advisory is issued when every element x
\* of the range has min <= x <= max: the bounds are inclusive, and an empty
\* range issues none either.
C3_InRangeNoAdvisory ==
    (Called("check") /\ wavelength_bound # None_ /\ Offending(last.arg, wavelength_bound) = {})
        => (last.warned = 0 /\ last.shown = 0)

\* a call whose range holds an element equal to min and one equal to max
C3_Witness ==
    /\ Called("check")
    /\ wavelength_bound # None_
    /\ \E i, j \in 1..Len(last.arg.mags) :
          /\ Value(last.arg, i) = Value(wavelength_bound, 1)
          /\ Value(last.arg, j) = Value(wavelength_bound, 2)
    /\ last.warned = 0

\* C4: whenever the wrapped operation runs, the wavelength it receives is a
\* Quantity, never None and never a bare number, whatever the caller passed
\* and whether or not wavelength_bound is set; with the wavelength omitted
\* and wavelength_bound None the wrapped operation is not run at all.
C4_BodyReceivesQuantity ==
    Called("wrapper") =>
        /\ last.ran => last.received.kind = "Quantity"
        /\ (last.arg = None_ /\ wavelength_bound = None_) => ~last.ran

\* the wavelength is omitted on a material without bound: func does not run
C4_Witness ==
    /\ Called("wrapper")
    /\ last.arg = None_
    /\ wavelength_bound = None_
    /\ ~last.ran
    /\ last.raised = "TypeError"

C6_BareNumberInMeters ==
    (Called("wrapper") /\ last.arg.kind = "number") =>
        /\ last.ran
        /\ last.received = Quantity(last.arg.shape, last.arg.mags, meter)

\* the bare scalar 1550 is passed
C6_Witness ==
    /\ Called("wrapper")
    /\ last.arg = Number("scalar", <<1550>>)
    /\ last.ran
    /\ last.received.units = meter

Calls(op) == last'.op = op /\ ncalls' = ncalls + 1

\* C8, as claimed: every call of _check_wavelength completes without raising,
\* returns None and leaves filename, wavelength_bound and the range unchanged.
C8_NeverRaises ==
    [][Calls("check") =>
          /\ last'.raised = "none"
          /\ last'.ret = "None"
          /\ filename' = filename
          /\ wavelength_bound' = wavelength_bound
          /\ last'.argAfter = last'.arg]_vars

\* C8, amended: a call of _check_wavelength leaves filename, wavelength_bound
\* and the range unchanged; it returns None without raising, except that
\* under the warnings filter action "error" a call that issues the advisory
\* raises it as a UserWarning.
C8_ObservationalUnlessErrorFilter ==
    [][Calls("check") =>
          /\ filename' = filename
          /\ wavelength_bound' = wavelength_bound
          /\ last'.argAfter = last'.arg
          /\ IF filter_action = "error" /\ last'.warned = 1
             THEN last'.raised = "UserWarning"
             ELSE last'.raised = "none" /\ last'.ret = "None"]_vars

\* a range fully outside the bound: the advisory is shown and the call returns
C8_Witness ==
    /\ Called("check")
    /\ wavelength_bound # None_
    /\ Len(last.arg.mags) = 2
    /\ Cardinality(Offending(last.arg, wavelength_bound)) = 2
    /\ last.shown = 1
    /\ last.raised = "none"
    /\ last.ret = "None"
    /\ last.argAfter = last.arg

\* two calls of _check_wavelength in a row with the same range, the first of
\* which issued the advisory
Repeated ==
    /\ last.op = "check"
    /\ Calls("check")
    /\ last'.arg = last.arg
    /\ last.warned = 1

\* C9, as claimed: the second of two identical out-of-range calls issues the
\* advisory again and it is not deduplicated or suppressed: it is delivered
\* as the first was.
C9_RepeatNotSuppressed ==
    [][Repeated => (last'.warned = 1 /\ last'.shown = last.shown)]_vars

\* C9, amended: _check_wavelength keeps no memory, the second of two identical
\* out-of-range calls issues the advisory again; the warnings machinery
\* delivers this repeat only under the filter action "always", and suppresses
\* it under "default", "module" and "once" (and under "ignore" and "error"
\* delivers none).
C9_RepeatIssuedDeliveredOnlyUnderAlways ==
    [][Repeated =>
          /\ last'.warned = 1
          /\ last'.shown = IF filter_action = "always" THEN 1 ELSE 0]_vars

\* under the default action, a second call issued the advisory and it was
\* suppressed as a repeat
C9_Witness ==
    /\ Called("check")
    /\ ncalls = 2
    /\ filter_action = "default"
    /\ last.warned = 1
    /\ last.shown = 0
    /\ registry # {}

\* C10: __str__ and __repr__ return the same string, "Material: " followed by
\* the filename, and neither changes the material.
C10_StrAndRepr ==
    [][(Calls("str") \/ Calls("repr")) =>
          /\ last'.ret = "Material: " \o filename
          /\ filename' = filename
          /\ wavelength_bound' = wavelength_bound]_vars

\* __repr__ of the material "water"
C10_Witness ==
    /\ Called("repr")
    /\ filename = "water"
    /\ last.ret = "Material: water"

====
